---- MODULE Spec2Model ----
(***************************************************************************)
(* Contact management backend: an express application with six routes      *)
(* (health, list, create, get, update, delete) over one SQLite table,      *)
(* `contacts`, reached through a synchronous better-sqlite3 connection.    *)
(*                                                                         *)
(* Every route handler runs to completion on Node's single thread and the  *)
(* driver is synchronous, so each handler is one atomic action.            *)
(***************************************************************************)
EXTENDS Integers, Sequences, FiniteSets, TLC

VARIABLES
    contacts,         \* rows of table `contacts` (a set of row records)
    sqlite_sequence,  \* largest rowid ever assigned (AUTOINCREMENT bookkeeping)
    clock,            \* CURRENT_TIMESTAMP of the server, in whole seconds
    request,          \* the request handled last
    response,         \* the envelope handed to res.json for that request
    insertLog,        \* history: identifiers in the order INSERT assigned them
    lastCreated,      \* history: the latest successful create, while its row is untouched
    deleted,          \* history: identifiers deleted since the latest successful create
    storeCalls,       \* history: statements the handler of that request ran on the store
    listening,        \* the process runs and its server accepts requests
    dbCloses,         \* calls of db.close() so far
    sent              \* history: calls of sendResponse the handler of that request made

vars == <<contacts, sqlite_sequence, clock, request, response,
          insertLog, lastCreated, deleted, storeCalls, listening, dbCloses, sent>>

-----------------------------------------------------------------------------
(* Bounds of the model. *)

\* identifiers the table may hand out before the model stops creating
MaxId == 2

\* the same, in the specification that follows three contacts through the list
MaxListed == 3

\* seconds the server clock may advance
MaxClock == 1

-----------------------------------------------------------------------------
(* JavaScript values, as far as request bodies and envelopes use them. *)

Undefined == [t |-> "undefined", s |-> "", n |-> 0]
Null == [t |-> "null", s |-> "", n |-> 0]
Str(x) == [t |-> "string", s |-> x, n |-> 0]
Num(k) == [t |-> "number", s |-> "", n |-> k]

\* ToBoolean: undefined, null, "" and 0 are falsy
Truthy(v) ==
    CASE v.t = "string" -> v.s # ""
      [] v.t = "number" -> v.n # 0
      [] OTHER -> FALSE

\* a mutation of OrNull: the value is bound as submitted
OrNull_Raw(v) == v

\* `x || null`
OrNull(v) == IF Truthy(v) THEN v ELSE Null

-----------------------------------------------------------------------------
(* Configuration tables. *)

SUCCESS == 0
VALIDATION_ERROR == 1
NOT_FOUND == 2
NETWORK_ERROR == -1

\* a mutation of DATABASE_ERROR: a storage failure is reported with the reserved code
DATABASE_ERROR_AsNetwork == NETWORK_ERROR

DATABASE_ERROR == 3

REQUIRED_FIELD_MISSING == "Required field is missing"
EMAIL_ALREADY_EXISTS == "Email already exists in the system"
CONTACT_NOT_FOUND == "Contact not found"
INVALID_CONTACT_ID == "Invalid contact ID provided"
CONTACT_CREATED == "Contact created successfully"
CONTACT_UPDATED == "Contact updated successfully"
CONTACT_DELETED == "Contact deleted successfully"
DATA_RETRIEVAL_FAILED == "Failed to retrieve data"
DATA_SAVE_FAILED == "Failed to save data"
DATA_UPDATE_FAILED == "Failed to update data"
DATA_DELETE_FAILED == "Failed to delete data"

-----------------------------------------------------------------------------
(* Inputs. *)

\* req.body of a create or an update: name, phone, email, address
Bodies ==
    { [name |-> Str("Ann"), phone |-> Str("555"), email |-> Str("a@x"), address |-> Str("Rd")],
      [name |-> Str("Bob"), phone |-> Str("555"), email |-> Str(""), address |-> Undefined],
      [name |-> Str(""), phone |-> Str("555"), email |-> Undefined, address |-> Str("Rd")],
      [name |-> Str("Ann"), phone |-> Undefined, email |-> Str("a@x"), address |-> Null],
      [name |-> Null, phone |-> Str(""), email |-> Undefined, address |-> Undefined] }

NoBody == [name |-> Undefined, phone |-> Undefined, email |-> Undefined, address |-> Undefined]

\* req.params.id: always a string; the decimal identifiers and one non-numeric text
IdParams == { ToString(i) : i \in 1..MaxId } \cup { "abc" }

\* what a driver call does: returns, or throws a SqliteError with this message
NoFault == "none"
UniqueFault == "UNIQUE constraint failed: contacts.email"
UniquePhoneFault == "UNIQUE constraint failed: contacts.phone"
BusyFault == "database is locked"
IoFault == "disk I/O error"

\* a read or a delete cannot violate a uniqueness constraint
ReadFaults == { NoFault, BusyFault, IoFault }
WriteFaults == { NoFault, UniqueFault, UniquePhoneFault, BusyFault, IoFault }

-----------------------------------------------------------------------------
(* The contacts table. *)

\* the text CURRENT_TIMESTAMP stores; fixed width, so text order is time order
FormatTimestamp(sec) == "1970-01-01 00:00:0" \o ToString(sec)

\* a text parameter compared with the INTEGER column `id`: the column's
\* affinity converts text that is a decimal literal, other text matches no row
IsNumericText(s) == \E k \in 0..(MaxId + 1) : ToString(k) = s
TextToInteger(s) == CHOOSE k \in 0..(MaxId + 1) : ToString(k) = s
IdMatches(rowid, param) == IsNumericText(param) /\ TextToInteger(param) = rowid

\* isNaN(req.params.id)
isNaN(param) == ~IsNumericText(param)

\* the driver binds undefined and null as SQL NULL, a string as TEXT
Bind(v) == IF v.t \in {"undefined", "null"} THEN Null ELSE v

Max(a, b) == IF a >= b THEN a ELSE b

\* the largest rowid in the table, 0 when it is empty
MaxRowid(table) ==
    IF table = {} THEN 0 ELSE CHOOSE m \in { r.id : r \in table } : \A r \in table : r.id <= m

\* a mutation of NextRowid: INTEGER PRIMARY KEY without AUTOINCREMENT
NextRowid_NoAutoincrement(table, seq) == MaxRowid(table) + 1

\* INTEGER PRIMARY KEY AUTOINCREMENT: one more than the largest rowid the
\* table has ever held, which sqlite_sequence records
NextRowid(table, seq) == Max(seq, MaxRowid(table)) + 1

\* INSERT INTO contacts (name, phone, email, address) VALUES (?, ?, ?, ?)
\* name and phone are NOT NULL; created_at defaults to CURRENT_TIMESTAMP
InsertRow(table, seq, now, name, phone, email, address) ==
    IF Bind(name) = Null \/ Bind(phone) = Null
    THEN [threw |-> TRUE, message |-> "NOT NULL constraint failed",
          table |-> table, seq |-> seq, changes |-> 0, lastInsertRowid |-> 0]
    ELSE LET rowid == NextRowid(table, seq)
             row == [id |-> rowid, name |-> Bind(name), phone |-> Bind(phone),
                     email |-> Bind(email), address |-> Bind(address),
                     created_at |-> now]
         IN [threw |-> FALSE, message |-> "",
             table |-> table \cup {row}, seq |-> Max(seq, rowid),
             changes |-> 1, lastInsertRowid |-> rowid]

\* a mutation of UpdateChanges: counts only the rows whose values changed
UpdateChanges_ValuesChanged(table, param, after) ==
    Cardinality({ r \in table : IdMatches(r.id, param) /\ r \notin after })

\* result.changes of an UPDATE: the rows the WHERE clause matched,
\* whether or not their values differ from the ones written
UpdateChanges(table, param, after) ==
    Cardinality({ r \in table : IdMatches(r.id, param) })

\* a mutation of UpdateRow: the statement has lost its WHERE clause
UpdateRow_NoWhere(table, name, phone, email, address, param) ==
    [threw |-> FALSE, message |-> "",
     table |-> { [r EXCEPT !.name = Bind(name), !.phone = Bind(phone),
                           !.email = Bind(email), !.address = Bind(address)] : r \in table },
     changes |-> Cardinality(table)]

\* UPDATE contacts SET name = ?, phone = ?, email = ?, address = ? WHERE id = ?
UpdateRow(table, name, phone, email, address, param) ==
    LET hit == { r \in table : IdMatches(r.id, param) }
        after == { IF r \in hit
                   THEN [r EXCEPT !.name = Bind(name), !.phone = Bind(phone),
                                  !.email = Bind(email), !.address = Bind(address)]
                   ELSE r : r \in table }
    IN IF hit # {} /\ (Bind(name) = Null \/ Bind(phone) = Null)
       THEN [threw |-> TRUE, message |-> "NOT NULL constraint failed",
             table |-> table, changes |-> 0]
       ELSE [threw |-> FALSE, message |-> "",
             table |-> after, changes |-> UpdateChanges(table, param, after)]

\* a mutation of DeleteRow: the statement has lost its WHERE clause
DeleteRow_NoWhere(table, param) ==
    [threw |-> FALSE, message |-> "", table |-> {}, changes |-> Cardinality(table)]

\* DELETE FROM contacts WHERE id = ?
DeleteRow(table, param) ==
    LET gone == { r \in table : IdMatches(r.id, param) }
    IN [threw |-> FALSE, message |-> "", table |-> table \ gone, changes |-> Cardinality(gone)]

\* a mutation of SelectById: the statement has lost its WHERE clause
SelectById_NoWhere(table, param) == table

\* SELECT * FROM contacts WHERE id = ?  (.get: the first row, or undefined)
SelectById(table, param) == { r \in table : IdMatches(r.id, param) }

\* the orders in which the rows of a set can be listed
Orderings(table) ==
    { q \in [1..Cardinality(table) -> table] :
        \A i, j \in 1..Cardinality(table) : i # j => q[i] # q[j] }

\* SELECT * FROM contacts ORDER BY created_at DESC: every result the statement
\* may produce; SQL leaves the order of rows with equal created_at open
SelectAllOrdered(table) ==
    { q \in Orderings(table) :
        \A i, j \in 1..Cardinality(table) : i < j => q[i].created_at >= q[j].created_at }

\* a row as the driver hands it to JavaScript
RowToJs(r) ==
    [id |-> Num(r.id), name |-> r.name, phone |-> r.phone, email |-> r.email,
     address |-> r.address, created_at |-> Str(FormatTimestamp(r.created_at))]

-----------------------------------------------------------------------------
(* Helpers of the handlers. *)

\* the `data` argument of sendResponse: null, one object, or an array
NoData == [kind |-> "null"]
ObjectData(o) == [kind |-> "object", object |-> o]
ArrayData(q) == [kind |-> "array", array |-> q]

\* a mutation of sendResponse: data is attached whenever it is given
sendResponse_AlwaysData(code, msg, data) == [code |-> code, msg |-> msg, data |-> data]

\* sendResponse: { code, msg }, and data only when it is not null
sendResponse(code, msg, data) ==
    IF data.kind # "null"
    THEN [code |-> code, msg |-> msg, data |-> data]
    ELSE [code |-> code, msg |-> msg]

\* a mutation of validateContactInput: only the name is checked
validateContactInput_NameOnly(name, phone) ==
    IF ~Truthy(name) THEN Str(REQUIRED_FIELD_MISSING) ELSE Null

\* validateContactInput: the message when name or phone is falsy, else null
validateContactInput(name, phone) ==
    IF ~Truthy(name) \/ ~Truthy(phone) THEN Str(REQUIRED_FIELD_MISSING) ELSE Null

\* error.message.includes('UNIQUE constraint failed')
IsUniqueViolation(message) == message \in { UniqueFault, UniquePhoneFault }

\* a mutation of FailureMessage: the exception's own message is sent
FailureMessage_Leak(message, configured) == message

\* the msg a catch block sends: the configured text, whatever error.message is
FailureMessage(message, configured) == configured

\* `${ERROR_MESSAGES.CONTACT_NOT_FOUND} (ID: ${req.params.id})`
NotFoundWithId(param) == CONTACT_NOT_FOUND \o " (ID: " \o param \o ")"

-----------------------------------------------------------------------------
(* Initial state: the server listens, the table exists and is empty. *)

NoRequest == [op |-> "none", id |-> "", body |-> NoBody, fault |-> NoFault]
NoCreate == [id |-> 0, body |-> NoBody, created_at |-> 0]

Init ==
    /\ contacts = {}
    /\ sqlite_sequence = 0
    /\ clock = 0
    /\ request = NoRequest
    /\ response = [code |-> SUCCESS, msg |-> Null]
    /\ insertLog = <<>>
    /\ lastCreated = NoCreate
    /\ deleted = {}
    /\ storeCalls = 0
    /\ listening = TRUE
    /\ dbCloses = 0
    /\ sent = 0

\* a request is served while the process runs; no handler touches the connection
Serving == listening /\ UNCHANGED <<listening, dbCloses>>

\* a mutation of ReturnsEarly: `sendResponse(...)` without the `return`
ReturnsEarly_FallsThrough(validationError) == FALSE

\* `if (validationError) { return sendResponse(...) }`: the handler ends there
ReturnsEarly(validationError) == validationError # Null

\* envelopes sent before the try block is entered
SentBefore(validationError) == IF validationError # Null THEN 1 ELSE 0

\* the client receives the first envelope written to the connection
FirstSent(validationError, later) ==
    IF validationError # Null
    THEN sendResponse(VALIDATION_ERROR, validationError, NoData)
    ELSE later

\* the statement of a handler: the driver throws `fault`, or the statement runs
Attempt(fault, result) ==
    IF fault # NoFault
    THEN [threw |-> TRUE, message |-> fault, table |-> contacts, seq |-> sqlite_sequence,
          changes |-> 0, lastInsertRowid |-> 0]
    ELSE result

-----------------------------------------------------------------------------
(* The route handlers. *)

\* GET /api/health
Health ==
    /\ Serving
    /\ request' = [op |-> "health", id |-> "", body |-> NoBody, fault |-> NoFault]
    /\ response' = sendResponse(SUCCESS, Null, NoData)
    /\ sent' = 1
    /\ storeCalls' = 0
    /\ UNCHANGED <<contacts, sqlite_sequence, clock, insertLog, lastCreated, deleted>>

\* GET /api/contacts
ListContacts ==
    /\ Serving
    /\ \E fault \in ReadFaults :
        /\ request' = [op |-> "list", id |-> "", body |-> NoBody, fault |-> fault]
        /\ storeCalls' = 1
        /\ sent' = 1
        /\ IF fault = NoFault
           THEN \E q \in SelectAllOrdered(contacts) :
                    response' = sendResponse(SUCCESS, Null,
                                    ArrayData([i \in DOMAIN q |-> RowToJs(q[i])]))
           ELSE response' = sendResponse(DATABASE_ERROR,
                                Str(FailureMessage(fault, DATA_RETRIEVAL_FAILED)), NoData)
        /\ UNCHANGED <<contacts, sqlite_sequence, clock, insertLog, lastCreated, deleted>>

\* POST /api/contacts
CreateContact(limit) ==
    /\ Serving
    /\ \E body \in Bodies, fault \in WriteFaults :
        LET validationError == validateContactInput(body.name, body.phone)
            email == OrNull(body.email)
            address == OrNull(body.address)
            result == Attempt(fault, InsertRow(contacts, sqlite_sequence, clock,
                                               body.name, body.phone, email, address))
        IN /\ request' = [op |-> "create", id |-> "", body |-> body, fault |-> fault]
           /\ UNCHANGED clock
           /\ IF ReturnsEarly(validationError)
              THEN /\ fault = NoFault
                   /\ response' = sendResponse(VALIDATION_ERROR, validationError, NoData)
                   /\ sent' = 1
                   /\ storeCalls' = 0
                   /\ UNCHANGED <<contacts, sqlite_sequence, insertLog, lastCreated, deleted>>
              ELSE /\ storeCalls' = 1
                   /\ sent' = SentBefore(validationError) + 1
                   /\ IF result.threw
                      THEN /\ response' = FirstSent(validationError,
                                IF IsUniqueViolation(result.message)
                                THEN sendResponse(VALIDATION_ERROR,
                                         Str(FailureMessage(result.message, EMAIL_ALREADY_EXISTS)), NoData)
                                ELSE sendResponse(DATABASE_ERROR,
                                         Str(FailureMessage(result.message, DATA_SAVE_FAILED)), NoData))
                           /\ UNCHANGED <<contacts, sqlite_sequence, insertLog, lastCreated, deleted>>
                      ELSE /\ result.lastInsertRowid <= limit
                           /\ contacts' = result.table
                           /\ sqlite_sequence' = result.seq
                           /\ response' = FirstSent(validationError,
                                   sendResponse(SUCCESS, Str(CONTACT_CREATED),
                                       ObjectData([id |-> Num(result.lastInsertRowid),
                                                   name |-> body.name, phone |-> body.phone,
                                                   email |-> email, address |-> address])))
                           /\ insertLog' = Append(insertLog, result.lastInsertRowid)
                           /\ lastCreated' = [id |-> result.lastInsertRowid, body |-> body,
                                              created_at |-> clock]
                           /\ deleted' = {}

\* GET /api/contacts/:id
GetContact ==
    /\ Serving
    /\ \E param \in IdParams, fault \in ReadFaults :
        LET found == SelectById(contacts, param)
        IN /\ request' = [op |-> "get", id |-> param, body |-> NoBody, fault |-> fault]
           /\ storeCalls' = 1
           /\ sent' = 1
           /\ IF fault # NoFault
              THEN response' =
                       IF isNaN(param)
                       THEN sendResponse(VALIDATION_ERROR,
                                Str(FailureMessage(fault, INVALID_CONTACT_ID)), NoData)
                       ELSE sendResponse(DATABASE_ERROR,
                                Str(FailureMessage(fault, DATA_RETRIEVAL_FAILED)), NoData)
              ELSE IF found # {}
                   THEN \E contact \in found :
                            response' = sendResponse(SUCCESS, Null, ObjectData(RowToJs(contact)))
                   ELSE response' = sendResponse(NOT_FOUND, Str(NotFoundWithId(param)), NoData)
           /\ UNCHANGED <<contacts, sqlite_sequence, clock, insertLog, lastCreated, deleted>>

\* PUT /api/contacts/:id
UpdateContact ==
    /\ Serving
    /\ \E param \in IdParams, body \in Bodies, fault \in WriteFaults :
        LET validationError == validateContactInput(body.name, body.phone)
            email == OrNull(body.email)
            address == OrNull(body.address)
            result == Attempt(fault, UpdateRow(contacts, body.name, body.phone,
                                               email, address, param))
        IN /\ request' = [op |-> "update", id |-> param, body |-> body, fault |-> fault]
           /\ UNCHANGED <<sqlite_sequence, clock, insertLog, deleted>>
           /\ IF ReturnsEarly(validationError)
              THEN /\ fault = NoFault
                   /\ response' = sendResponse(VALIDATION_ERROR, validationError, NoData)
                   /\ sent' = 1
                   /\ storeCalls' = 0
                   /\ UNCHANGED <<contacts, lastCreated>>
              ELSE /\ storeCalls' = 1
                   /\ sent' = SentBefore(validationError) + 1
                   /\ IF result.threw
                      THEN /\ response' = FirstSent(validationError,
                                IF IsUniqueViolation(result.message)
                                THEN sendResponse(VALIDATION_ERROR,
                                         Str(FailureMessage(result.message, EMAIL_ALREADY_EXISTS)), NoData)
                                ELSE sendResponse(DATABASE_ERROR,
                                         Str(FailureMessage(result.message, DATA_UPDATE_FAILED)), NoData))
                           /\ UNCHANGED <<contacts, lastCreated>>
                      ELSE /\ contacts' = result.table
                           /\ IF result.changes > 0
                              THEN /\ response' = FirstSent(validationError,
                                           sendResponse(SUCCESS, Str(CONTACT_UPDATED),
                                               ObjectData([id |-> Str(param),
                                                           name |-> body.name, phone |-> body.phone,
                                                           email |-> email, address |-> address])))
                                   /\ lastCreated' = IF IdMatches(lastCreated.id, param)
                                                     THEN NoCreate ELSE lastCreated
                              ELSE /\ response' = FirstSent(validationError,
                                           sendResponse(NOT_FOUND, Str(CONTACT_NOT_FOUND), NoData))
                                   /\ UNCHANGED lastCreated

\* DELETE /api/contacts/:id
DeleteContact ==
    /\ Serving
    /\ \E param \in IdParams, fault \in ReadFaults :
        LET result == Attempt(fault, DeleteRow(contacts, param))
        IN /\ request' = [op |-> "delete", id |-> param, body |-> NoBody, fault |-> fault]
           /\ storeCalls' = 1
           /\ sent' = 1
           /\ UNCHANGED <<sqlite_sequence, clock, insertLog>>
           /\ IF result.threw
              THEN /\ response' =
                        IF isNaN(param)
                        THEN sendResponse(VALIDATION_ERROR,
                                 Str(FailureMessage(result.message, INVALID_CONTACT_ID)), NoData)
                        ELSE sendResponse(DATABASE_ERROR,
                                 Str(FailureMessage(result.message, DATA_DELETE_FAILED)), NoData)
                   /\ UNCHANGED <<contacts, lastCreated, deleted>>
              ELSE /\ contacts' = result.table
                   /\ IF result.changes > 0
                      THEN /\ response' = sendResponse(SUCCESS, Str(CONTACT_DELETED), NoData)
                           /\ lastCreated' = IF IdMatches(lastCreated.id, param)
                                             THEN NoCreate ELSE lastCreated
                           /\ deleted' = deleted \cup {param}
                      ELSE /\ response' = sendResponse(NOT_FOUND, Str(NotFoundWithId(param)), NoData)
                           /\ UNCHANGED <<lastCreated, deleted>>

\* a second passes on the server clock
Tick ==
    /\ listening
    /\ clock < MaxClock
    /\ clock' = clock + 1
    /\ UNCHANGED <<contacts, sqlite_sequence, request, response,
                   insertLog, lastCreated, deleted, storeCalls, listening, dbCloses, sent>>

\* SIGINT or SIGTERM arrives: no handler is registered, so the runtime ends the
\* process at once; the server stops with it and db.close() is never called
Terminate ==
    /\ listening
    /\ listening' = FALSE
    /\ UNCHANGED <<contacts, sqlite_sequence, clock, request, response,
                   insertLog, lastCreated, deleted, storeCalls, dbCloses, sent>>

Next ==
    \/ Health
    \/ ListContacts
    \/ CreateContact(MaxId)
    \/ GetContact
    \/ UpdateContact
    \/ DeleteContact
    \/ Tick
    \/ Terminate

Spec == Init /\ [][Next]_vars

\* the same server, followed until three contacts exist
NextListed ==
    \/ ListContacts
    \/ CreateContact(MaxListed)
    \/ DeleteContact
    \/ Tick

SpecListed == Init /\ [][NextListed]_vars

-----------------------------------------------------------------------------
(* Vocabulary of the properties. *)

\* a step that serves a request: the only other step advances the clock
Served == clock' = clock /\ listening'

\* a body field that is missing (undefined or null) or the empty string
MissingOrEmpty(v) == v.t \in {"undefined", "null"} \/ (v.t = "string" /\ v.s = "")

\* a body field that is missing
Missing(v) == v.t \in {"undefined", "null"}

\* the rows whose identifier is written as `param`
RowsNamed(table, param) == { r \in table : ToString(r.id) = param }

HasData(resp) == "data" \in DOMAIN resp

\* a storage fault that is a uniqueness-constraint violation
Uniqueness(fault) ==
    fault \in { "UNIQUE constraint failed: contacts.email",
                "UNIQUE constraint failed: contacts.phone" }

\* the last request was a get, served without a storage fault, of the contact
\* created last, and that contact has not been updated or deleted since
GotLastCreated ==
    /\ request.op = "get"
    /\ request.fault = NoFault
    /\ lastCreated.id # 0
    /\ request.id = ToString(lastCreated.id)

-----------------------------------------------------------------------------
(* C1 *)

\* C1, as stated: after a create with non-empty name and phone, a get of the
\* returned identifier answers code 0 with the submitted name, phone, email and
\* address, a missing optional field read back as null, and with the identifier
\* and creation timestamp the create assigned, at every such get.
C1_GetEchoesSubmitted ==
    GotLastCreated =>
        /\ response.code = SUCCESS
        /\ HasData(response)
        /\ response.data.kind = "object"
        /\ LET contact == response.data.object
               body == lastCreated.body
           IN /\ contact.id = Num(lastCreated.id)
              /\ contact.created_at = Str(FormatTimestamp(lastCreated.created_at))
              /\ contact.name = body.name
              /\ contact.phone = body.phone
              /\ contact.email = (IF Missing(body.email) THEN Null ELSE body.email)
              /\ contact.address = (IF Missing(body.address) THEN Null ELSE body.address)

\* C1, amended: the same, where an optional field that is missing or the empty
\* string is read back as null.
C1_GetEchoesNormalised ==
    GotLastCreated =>
        /\ response.code = SUCCESS
        /\ HasData(response)
        /\ response.data.kind = "object"
        /\ LET contact == response.data.object
               body == lastCreated.body
           IN /\ contact.id = Num(lastCreated.id)
              /\ contact.created_at = Str(FormatTimestamp(lastCreated.created_at))
              /\ contact.name = body.name
              /\ contact.phone = body.phone
              /\ contact.email = (IF MissingOrEmpty(body.email) THEN Null ELSE body.email)
              /\ contact.address = (IF MissingOrEmpty(body.address) THEN Null ELSE body.address)

\* a contact created with an empty email has been read back, a second later
C1_Witness ==
    /\ GotLastCreated
    /\ lastCreated.body.email = Str("")
    /\ clock > lastCreated.created_at
    /\ response.code = SUCCESS

-----------------------------------------------------------------------------
(* C2 *)

\* C2: a create or an update whose name or phone is missing or empty is answered
\* with code 1, runs no statement on the store, and leaves the rows as they were.
C2_InvalidInputRejected ==
    [][(/\ Served
        /\ request'.op \in {"create", "update"}
        /\ (MissingOrEmpty(request'.body.name) \/ MissingOrEmpty(request'.body.phone)))
       => (/\ response'.code = VALIDATION_ERROR
           /\ storeCalls' = 0
           /\ contacts' = contacts
           /\ sqlite_sequence' = sqlite_sequence)]_vars

\* an update without a phone, addressed to a stored contact, has been rejected
C2_Witness ==
    /\ request.op = "update"
    /\ Missing(request.body.phone)
    /\ RowsNamed(contacts, request.id) # {}
    /\ response.code = VALIDATION_ERROR

-----------------------------------------------------------------------------
(* C3 *)

\* C3: a get, an update with valid name and phone, or a delete of an identifier
\* that no stored row has, served without a storage fault, is answered with
\* code 2 and leaves the rows as they were.
C3_UnknownIdNotFound ==
    [][(/\ Served
        /\ request'.op \in {"get", "update", "delete"}
        /\ request'.fault = NoFault
        /\ request'.op = "update" =>
               ~(MissingOrEmpty(request'.body.name) \/ MissingOrEmpty(request'.body.phone))
        /\ RowsNamed(contacts, request'.id) = {})
       => (/\ response'.code = NOT_FOUND
           /\ contacts' = contacts
           /\ sqlite_sequence' = sqlite_sequence)]_vars

\* a get of an identifier that was never assigned, while another contact is stored
C3_Witness ==
    /\ request.op = "get"
    /\ request.id = ToString(MaxId)
    /\ contacts # {}
    /\ sqlite_sequence < MaxId
    /\ response.code = NOT_FOUND

-----------------------------------------------------------------------------
(* C4 *)

\* C4: a successful delete of identifier i removes the row with identifier i and
\* no other, so one row fewer is stored; a delete of an identifier deleted since
\* the last create, served without a storage fault, is answered with code 2.
C4_DeleteExactlyOne ==
    [][(Served /\ request'.op = "delete")
       => (/\ response'.code = SUCCESS =>
                /\ contacts' = contacts \ RowsNamed(contacts, request'.id)
                /\ Cardinality(contacts') = Cardinality(contacts) - 1
           /\ (request'.fault = NoFault /\ request'.id \in deleted) =>
                response'.code = NOT_FOUND)]_vars

\* a second delete of the same identifier has been answered, another row is stored
C4_Witness ==
    /\ request.op = "delete"
    /\ request.id \in deleted
    /\ response.code = NOT_FOUND
    /\ contacts # {}

-----------------------------------------------------------------------------
(* C5 *)

\* C5: when a successful update is followed at once by the same update (same
\* identifier, same payload), the second one succeeds too and the rows after
\* it are the rows after the first.
C5_UpdateIdempotent ==
    [][(/\ Served
        /\ request.op = "update"
        /\ response.code = SUCCESS
        /\ request' = request)
       => (/\ response'.code = SUCCESS
           /\ response' = response
           /\ contacts' = contacts)]_vars

\* an update has succeeded and its row holds the payload, ready to be repeated
C5_Witness ==
    /\ request.op = "update"
    /\ response.code = SUCCESS
    /\ request.body.name = Str("Bob")
    /\ \E r \in RowsNamed(contacts, request.id) : r.name = Str("Bob") /\ r.email = Null
    /\ Cardinality(contacts) = MaxId

-----------------------------------------------------------------------------
(* C6 *)

\* the place of an identifier in the order of insertion
InsertedAt(rowid) == CHOOSE k \in DOMAIN insertLog : insertLog[k] = rowid

\* C6: when three contacts A, B, C, created in this order, are stored, a
\* successful list returns all three, most recently created first, C, B, A,
\* whatever the clock read when each was created.
C6_ListMostRecentFirst ==
    (request.op = "list" /\ response.code = SUCCESS /\ Cardinality(contacts) = 3) =>
        LET listed == response.data.array
        IN /\ Len(listed) = Cardinality(contacts)
           /\ \A i, j \in DOMAIN listed :
                  i < j => InsertedAt(listed[i].id.n) > InsertedAt(listed[j].id.n)

-----------------------------------------------------------------------------
(* C7 *)

\* C7: a get whose identifier is not numeric is answered with code 1, whether
\* the store raises a fault for it or not.
C7_NonNumericIdRejected ==
    (request.op = "get" /\ request.id = "abc") => response.code = VALIDATION_ERROR

-----------------------------------------------------------------------------
(* C8 *)

\* C8: whichever of list, get, create, update and delete meets a storage fault,
\* and whatever the identifier, the answer is code 1 when the fault is a
\* uniqueness violation and code 3 when it is any other fault.
C8_OneTranslationRule ==
    (request.op \in {"list", "get", "create", "update", "delete"} /\ request.fault # NoFault)
        => response.code = (IF Uniqueness(request.fault)
                            THEN VALIDATION_ERROR ELSE DATABASE_ERROR)

-----------------------------------------------------------------------------
(* C9 *)

\* C9: an envelope carries data exactly when it answers a successful list, get,
\* create or update; a successful list of no contacts carries the empty array;
\* a successful delete, a health check and every failure carry none.
C9_DataWhenPayload ==
    request.op # "none" =>
        /\ HasData(response) <=>
               (response.code = SUCCESS /\ request.op \in {"list", "get", "create", "update"})
        /\ (request.op = "list" /\ response.code = SUCCESS /\ contacts = {}) =>
               (HasData(response) /\ response.data = ArrayData(<<>>))

\* no contact is stored and a list has answered with the empty array
C9_Witness ==
    /\ request.op = "list"
    /\ response.code = SUCCESS
    /\ contacts = {}
    /\ sqlite_sequence > 0
    /\ HasData(response)
    /\ Len(response.data.array) = 0

-----------------------------------------------------------------------------
(* C10 *)

\* C10: no two stored rows share an identifier, every stored row holds an
\* identifier an insert assigned, and each insert assigned an identifier
\* strictly larger than every insert before it.
C10_IdsUniqueMonotonic ==
    /\ \A r1, r2 \in contacts : r1.id = r2.id => r1 = r2
    /\ \A r \in contacts : \E k \in DOMAIN insertLog : insertLog[k] = r.id
    /\ \A i, j \in DOMAIN insertLog : i < j => insertLog[i] < insertLog[j]

\* a contact was created after an earlier one had been deleted
C10_Witness ==
    /\ Len(insertLog) = MaxId
    /\ Cardinality(contacts) = 1
    /\ \E r \in contacts : r.id = MaxId
    /\ request.op = "create"
    /\ response.code = SUCCESS

-----------------------------------------------------------------------------
(* C11 *)

\* C11: a successful update of identifier i leaves the number of rows and the
\* set of identifiers as they were, leaves every row with another identifier
\* untouched, and leaves the creation timestamp of the row with identifier i.
C11_UpdateFrame ==
    [][(Served /\ request'.op = "update" /\ response'.code = SUCCESS)
       => (/\ Cardinality(contacts') = Cardinality(contacts)
           /\ { r.id : r \in contacts' } = { r.id : r \in contacts }
           /\ \A r \in contacts : ToString(r.id) # request'.id => r \in contacts'
           /\ \A r \in RowsNamed(contacts, request'.id) :
                  \E a \in contacts' : a.id = r.id /\ a.created_at = r.created_at)]_vars

\* one of two stored contacts was renamed a second after it was created, and
\* the other one still holds different values
C11_Witness ==
    /\ request.op = "update"
    /\ response.code = SUCCESS
    /\ Cardinality(contacts) = 2
    /\ \E r \in RowsNamed(contacts, request.id) :
           /\ r.name = request.body.name
           /\ r.created_at < clock
           /\ \E o \in contacts : o.id # r.id /\ o.name # r.name

-----------------------------------------------------------------------------
(* C12 *)

\* C12: every stored row has a non-empty name and a non-empty phone, and its
\* email and its address are each null or a non-empty string.
C12_StoredFieldsWellFormed ==
    \A r \in contacts :
        /\ r.name.t = "string" /\ r.name.s # ""
        /\ r.phone.t = "string" /\ r.phone.s # ""
        /\ r.email.t = "null" \/ (r.email.t = "string" /\ r.email.s # "")
        /\ r.address.t = "null" \/ (r.address.t = "string" /\ r.address.s # "")

\* a contact was updated with an empty email and no address, and holds null for both
C12_Witness ==
    /\ request.op = "update"
    /\ response.code = SUCCESS
    /\ request.body.email = Str("")
    /\ request.body.address = Undefined
    /\ \E r \in RowsNamed(contacts, request.id) : r.email = Null /\ r.address = Null

-----------------------------------------------------------------------------
(* C13 *)

\* C13: every envelope a handler sends carries code 0, 1, 2 or 3; the reserved
\* code -1 is never sent.
C13_CodesInRange ==
    request.op # "none" => (response.code \in {0, 1, 2, 3} /\ response.code # -1)

\* a delete met a storage fault and was answered with code 3
C13_Witness ==
    /\ request.op = "delete"
    /\ request.fault = BusyFault
    /\ request.id # "abc"
    /\ response.code = 3

-----------------------------------------------------------------------------
(* C14 *)

\* the texts of ERROR_MESSAGES the handlers send
ConfiguredMessages ==
    { REQUIRED_FIELD_MISSING, EMAIL_ALREADY_EXISTS, CONTACT_NOT_FOUND, INVALID_CONTACT_ID,
      CONTACT_CREATED, CONTACT_UPDATED, CONTACT_DELETED, DATA_RETRIEVAL_FAILED,
      DATA_SAVE_FAILED, DATA_UPDATE_FAILED, DATA_DELETE_FAILED }

\* C14: the msg of every envelope is null, a configured text, or the configured
\* not-found text followed by the request's identifier, and an envelope that
\* answers a storage fault carries no data; and when the same request meets
\* two storage faults of the same kind, one after the other, with different
\* messages, the two envelopes are identical.
C14_NoInternalDetail ==
    /\ [](request.op # "none" =>
            /\ \/ response.msg = Null
               \/ response.msg \in { Str(m) : m \in ConfiguredMessages }
               \/ response.msg = Str(CONTACT_NOT_FOUND \o " (ID: " \o request.id \o ")")
            /\ request.fault # NoFault => ~HasData(response))
    /\ [][(/\ Served
            /\ request.fault # NoFault
            /\ request'.fault # NoFault
            /\ request'.fault # request.fault
            /\ Uniqueness(request'.fault) = Uniqueness(request.fault)
            /\ [request' EXCEPT !.fault = NoFault] = [request EXCEPT !.fault = NoFault])
           => response' = response]_vars

\* an update of a stored contact met a disk error and was answered with the
\* configured text
C14_Witness ==
    /\ request.op = "update"
    /\ request.fault = IoFault
    /\ RowsNamed(contacts, request.id) # {}
    /\ response.code = 3
    /\ response.msg = Str(DATA_UPDATE_FAILED)

-----------------------------------------------------------------------------
(* C15 *)

\* C15: once the process has terminated in an orderly way the storage
\* connection has been closed exactly once, and no request is served after the
\* connection was closed.
C15_ClosedOnceOnShutdown ==
    /\ [](~listening => dbCloses = 1)
    /\ [][dbCloses > 0 => (request' = request /\ response' = response)]_vars

-----------------------------------------------------------------------------
(* C16 *)

\* C16: the handler of every request, whichever of the six endpoints it is for
\* and whichever path it takes (validation short-circuit, success, not found,
\* storage exception), calls sendResponse exactly once, and the client has one
\* envelope with a code and a message when the handler ends.
C16_ExactlyOneEnvelope ==
    /\ [][Served => (sent' = 1 /\ {"code", "msg"} \subseteq DOMAIN response')]_vars
    /\ [](request.op # "none" => sent = 1)

\* a create was cut short by validation and answered with one envelope
C16_Witness ==
    /\ request.op = "create" /\ sent = 1
    /\ response.code = VALIDATION_ERROR
    /\ storeCalls = 0

-----------------------------------------------------------------------------
(* C17 *)

\* C17: the identifier a successful create returns is strictly greater than
\* every identifier assigned before it, deleted rows included; an identifier
\* that was assigned and has no row any more never has a row again; and a get
\* of such an identifier, served without a storage fault, answers not found.
C17_IdsNeverReused ==
    /\ [][(Served /\ request'.op = "create" /\ response'.code = SUCCESS)
           => /\ HasData(response') /\ response'.data.kind = "object"
              /\ \A k \in DOMAIN insertLog : response'.data.object.id.n > insertLog[k]
              /\ \E r \in contacts' \ contacts : r.id = response'.data.object.id.n]_vars
    /\ [][\A k \in DOMAIN insertLog :
             (\A r \in contacts : r.id # insertLog[k])
                => (\A r \in contacts' : r.id # insertLog[k])]_vars
    /\ []((/\ request.op = "get" /\ request.fault = NoFault
           /\ \E k \in DOMAIN insertLog : ToString(insertLog[k]) = request.id
           /\ RowsNamed(contacts, request.id) = {})
          => response.code = NOT_FOUND)

\* contact 1 was deleted, contact 2 was created after that, and a get of 1 is
\* answered not found
C17_Witness ==
    /\ insertLog = <<1, 2>>
    /\ { r.id : r \in contacts } = {2}
    /\ request.op = "get" /\ request.id = "1" /\ request.fault = NoFault
    /\ response.code = NOT_FOUND

====
